---- MODULE Spec2Model ----
(***************************************************************************)
(* LSB steganography codec of src/main.py: Steganography.encode_message    *)
(* and Steganography.decode_message, over a small file system of images.   *)
(* Strings are sequences of character codes, an image file is the flat     *)
(* sequence of its RGB samples (np.array(img).flatten()).                  *)
(***************************************************************************)
EXTENDS Integers, Sequences, FiniteSets, TLC

(* ---------------------------------------------------------------------- *)
(* Program constants                                                       *)
(* ---------------------------------------------------------------------- *)

\* "<<<END>>>"
Delimiter == <<60, 60, 60, 69, 78, 68, 62, 62, 62>>

\* a scan that reads ten more bytes than the limit
ScanLimitWide == 10000 + 80

\* range(0, min(len(binary_message), 10000), 8)
ScanLimit == 10000

\* if len(delimiter_search) > 20: delimiter_search = delimiter_search[-20:]
WindowSize == 20

\* an abort threshold of half the size
AbortThresholdLow == 10 \div 2

\* if len(message) < 10: break
AbortThreshold == 10

\* a partial-match threshold one higher
PartialThresholdHigh == 5 + 1

\* if len(message) > 5 and any(c.isalpha() for c in message)
PartialThreshold == 5

\* message[:50]
PreviewLen == 50

(* ---------------------------------------------------------------------- *)
(* String and bit helpers                                                  *)
(* ---------------------------------------------------------------------- *)

Min(a, b) == IF a < b THEN a ELSE b

\* s[:n] for 0 <= n
Take(s, n) == SubSeq(s, 1, Min(n, Len(s)))

\* s[-n:] for 0 < n
LastN(s, n) == IF Len(s) <= n THEN s ELSE SubSeq(s, Len(s) - n + 1, Len(s))

\* sub occurs in s at 0-based position p
OccursAt(s, sub, p) ==
    /\ p >= 0
    /\ p + Len(sub) <= Len(s)
    /\ \A j \in 1..Len(sub) : s[p + j] = sub[j]

\* sub in s
Contains(s, sub) == \E p \in 0..(Len(s) - Len(sub)) : OccursAt(s, sub, p)

\* s.rfind(sub): highest 0-based position, -1 when absent
RFind(s, sub) ==
    IF Contains(s, sub)
    THEN CHOOSE p \in 0..(Len(s) - Len(sub)) :
            /\ OccursAt(s, sub, p)
            /\ \A q \in (p + 1)..(Len(s) - Len(sub)) : ~OccursAt(s, sub, q)
    ELSE -1

\* the eight digits least significant first
Format08bLsbFirst(n) == [j \in 1..8 |-> (n \div (2 ^ (j - 1))) % 2]

RECURSIVE BinDigits(_)
\* binary digits of n >= 0, most significant first, no padding
BinDigits(n) == IF n < 2 THEN <<n>> ELSE Append(BinDigits(n \div 2), n % 2)

\* format(n, '08b'): zero-padded to at least 8 digits, longer when n > 255
Format08b(n) ==
    LET d == BinDigits(n)
    IN  IF Len(d) >= 8 THEN d ELSE [j \in 1..(8 - Len(d)) |-> 0] \o d

RECURSIVE ToBinary(_)
\* ''.join(format(ord(char), '08b') for char in message)
ToBinary(message) ==
    IF message = <<>> THEN <<>>
    ELSE Format08b(Head(message)) \o ToBinary(Tail(message))

\* int(byte, 2)
BinToInt(byte) ==
    LET RECURSIVE Value(_)
        \* value of the first k digits
        Value(k) == IF k = 0 THEN 0 ELSE 2 * Value(k - 1) + byte[k]
    IN  Value(Len(byte))

\* the mask 0xFC in place of 0xFE
EmbedBitWideMask(sample, bit) == (sample - (sample % 4)) + bit

\* (sample & 0xFE) | bit   on uint8 samples
EmbedBit(sample, bit) == (sample - (sample % 2)) + bit

\* pixel & 1
Lsb(sample) == sample % 2

\* no filter: every byte is kept
IsAcceptedAll(char_code) == char_code >= 0

\* 32 <= char_code <= 126 or char_code in [9, 10, 13]
IsAccepted(char_code) ==
    \/ (32 <= char_code /\ char_code <= 126)
    \/ char_code \in {9, 10, 13}

\* str.isalpha() on an accepted (ASCII) character
IsAlpha(char_code) ==
    \/ (65 <= char_code /\ char_code <= 90)
    \/ (97 <= char_code /\ char_code <= 122)

(* ---------------------------------------------------------------------- *)
(* Decoder scan                                                            *)
(* ---------------------------------------------------------------------- *)

\* binary_message: one LSB per sample
ExtractBits(flat_img) == [j \in 1..Len(flat_img) |-> Lsb(flat_img[j])]

\* loop state before the first iteration
ScanInit ==
    [i |-> 0, message |-> <<>>, delimiter_search |-> <<>>,
     state |-> "Scanning", final_message |-> <<>>]

\* the delimiter counted only once a further character follows it
DelimiterSeenLate(delimiter_search) ==
    Contains(SubSeq(delimiter_search, 1, Len(delimiter_search) - 1),
             Delimiter)

\* "<<<END>>>" in delimiter_search
DelimiterSeen(delimiter_search) == Contains(delimiter_search, Delimiter)

\* the slice taken one character too far
FinalMessageOffByOne(message, end_pos) == Take(message, end_pos + 1)

\* final_message = message[:end_pos]
FinalMessage(message, end_pos) == Take(message, end_pos)

\* a loop that visits every second group
NextOffsetSkipping(i) == i + 16

\* the next i of range(0, ..., 8)
NextOffset(i) == i + 8

\* one iteration of the for loop over i, or its exhaustion
ScanStep(binary_message, st) ==
    IF st.i >= Min(Len(binary_message), ScanLimit)
    THEN [st EXCEPT !.state = "Exhausted"]
    ELSE
      LET byte == SubSeq(binary_message, st.i + 1,
                         Min(st.i + 8, Len(binary_message)))
          next == [st EXCEPT !.i = NextOffset(st.i)]
      IN
      IF Len(byte) # 8 THEN next
      ELSE
        LET char_code == BinToInt(byte) IN
        IF IsAccepted(char_code)
        THEN
          LET message == Append(st.message, char_code)
              delimiter_search ==
                  LastN(Append(st.delimiter_search, char_code), WindowSize)
              grown == [next EXCEPT !.message = message,
                                    !.delimiter_search = delimiter_search]
          IN
          IF DelimiterSeen(delimiter_search)
          THEN
            LET end_pos == RFind(message, Delimiter) IN
            IF end_pos # -1
            THEN [grown EXCEPT !.state = "Found",
                               !.final_message = FinalMessage(message, end_pos)]
            ELSE grown
          ELSE grown
        ELSE
          IF Len(st.message) < AbortThreshold
          THEN [st EXCEPT !.state = "Aborted"]
          ELSE next

RECURSIVE Iterate(_, _, _)
\* at most n consecutive iterations of the loop from st, by halves
Iterate(binary_message, st, n) ==
    IF st.state # "Scanning" \/ n = 0 THEN st
    ELSE IF n = 1 THEN ScanStep(binary_message, st)
    ELSE LET half == Iterate(binary_message, st, n \div 2)
         IN  Iterate(binary_message, half, n - (n \div 2))

\* the whole for loop: one iteration per i of the range, then its end
ScanLoop(binary_message) ==
    Iterate(binary_message, ScanInit,
            (Min(Len(binary_message), ScanLimit) + 7) \div 8 + 1)

(* ---------------------------------------------------------------------- *)
(* Results and exceptions                                                  *)
(* ---------------------------------------------------------------------- *)

\* a returned (success, text) pair; kind names the fixed wording of text
Return(success, kind, text) ==
    [success |-> success, kind |-> kind, text |-> text,
     error |-> "", raised |-> FALSE]

\* an exception travelling up the call stack
Raise(error) ==
    [success |-> FALSE, kind |-> "Raised", text |-> <<>>,
     error |-> error, raised |-> TRUE]

\* no call made yet
None ==
    [success |-> FALSE, kind |-> "None", text |-> <<>>,
     error |-> "", raised |-> FALSE]

\* no handler: the exception leaves the call
CatchNothing(outcome) == outcome

\* except Exception as e: return False, f"Error ...: {str(e)}"
Catch(outcome) ==
    IF outcome.raised
    THEN [success |-> FALSE, kind |-> "Error", text |-> <<>>,
          error |-> outcome.error, raised |-> FALSE]
    ELSE outcome

\* the (success, text) pair returned after the loop
Classify(st) ==
    IF st.state = "Found"
    THEN Return(TRUE, "Found", st.final_message)
    ELSE IF /\ Len(st.message) > PartialThreshold
            /\ \E j \in 1..Len(st.message) : IsAlpha(st.message[j])
    THEN Return(FALSE, "PartialMatch", Take(st.message, PreviewLen))
    ELSE Return(FALSE, "NoMessageFound", <<>>)

(* ---------------------------------------------------------------------- *)
(* Files                                                                   *)
(* ---------------------------------------------------------------------- *)

Paths == {"in.png", "alt.png", "out.png", "out.jpg"}

Absent == [kind |-> "absent", samples |-> <<>>]

\* a file that Image.open cannot read
Corrupt == [kind |-> "corrupt", samples |-> <<>>]

\* a lossless image file holding the flat RGB samples
ImageFile(samples) == [kind |-> "image", samples |-> samples]

\* Image.open(path) succeeds
CanOpen(file) == file.kind = "image"

\* os.path.splitext(output_path)[1].lower() in ['.jpg', '.jpeg']
IsJpegPath(path) == path = "out.jpg"

\* output_path.rsplit('.', 1)[0] + '.png'
PngPath(path) == IF path = "out.jpg" THEN "out.png" ELSE path

(* ---------------------------------------------------------------------- *)
(* Encoder                                                                 *)
(* ---------------------------------------------------------------------- *)

\* the comparison >= in place of >
ExceedsCapacityOffByOne(binary_message, max_capacity) ==
    Len(binary_message) >= max_capacity

\* len(binary_message) > max_capacity
ExceedsCapacity(binary_message, max_capacity) ==
    Len(binary_message) > max_capacity

\* for i in range(len(binary_message)): flat_img[i] = ...
Embed(flat_img, binary_message) ==
    [j \in 1..Len(flat_img) |->
        IF j <= Len(binary_message)
        THEN EmbedBit(flat_img[j], binary_message[j])
        ELSE flat_img[j]]

\* the capacity check made only after the bits that fit were written and saved
EncodeBodyCheckLate(fs, image_path, msg, out_path, resp) ==
    IF IsJpegPath(out_path) /\ resp = "EOF"
    THEN [outcome |-> Raise("EOF when reading a line"), files |-> fs]
    ELSE IF IsJpegPath(out_path) /\ resp # "y"
    THEN [outcome |-> Return(FALSE, "Cancelled", <<>>), files |-> fs]
    ELSE IF ~CanOpen(fs[image_path])
    THEN [outcome |-> Raise("cannot open image"), files |-> fs]
    ELSE
      LET flat_img == fs[image_path].samples
          binary_message == ToBinary(msg \o Delimiter)
          encoded == ImageFile(Embed(flat_img,
                                     Take(binary_message, Len(flat_img))))
          saved == [fs EXCEPT ![PngPath(out_path)] = encoded]
      IN
      IF ExceedsCapacity(binary_message, Len(flat_img))
      THEN [outcome |-> Raise("Message too long for this image"),
            files |-> saved]
      ELSE IF IsJpegPath(out_path)
      THEN [outcome |-> Return(TRUE, "HiddenAsPng", <<>>), files |-> saved]
      ELSE [outcome |-> Return(TRUE, "Hidden", <<>>), files |-> saved]

\* body of the try block of encode_message: the outcome and the files after
EncodeBody(fs, image_path, msg, out_path, resp) ==
    IF IsJpegPath(out_path) /\ resp = "EOF"
    THEN [outcome |-> Raise("EOF when reading a line"), files |-> fs]
    ELSE IF IsJpegPath(out_path) /\ resp # "y"
    THEN [outcome |-> Return(FALSE, "Cancelled", <<>>), files |-> fs]
    ELSE IF ~CanOpen(fs[image_path])
    THEN [outcome |-> Raise("cannot open image"), files |-> fs]
    ELSE
      LET flat_img == fs[image_path].samples
          binary_message == ToBinary(msg \o Delimiter)
          max_capacity == Len(flat_img)
      IN
      IF ExceedsCapacity(binary_message, max_capacity)
      THEN [outcome |-> Raise("Message too long for this image"),
            files |-> fs]
      ELSE
        LET encoded == ImageFile(Embed(flat_img, binary_message)) IN
        IF IsJpegPath(out_path)
        THEN [outcome |-> Return(TRUE, "HiddenAsPng", <<>>),
              files |-> [fs EXCEPT ![PngPath(out_path)] = encoded]]
        ELSE [outcome |-> Return(TRUE, "Hidden", <<>>),
              files |-> [fs EXCEPT ![out_path] = encoded]]

\* body of the try block of decode_message: the outcome and the loop's
\* variables when it was left
DecodeBody(fs, image_path) ==
    IF ~CanOpen(fs[image_path])
    THEN [outcome |-> Raise("cannot open image"), scan |-> ScanInit]
    ELSE
      LET st == ScanLoop(ExtractBits(fs[image_path].samples))
      IN  [outcome |-> Classify(st), scan |-> st]

\* decode_message: the try block under its except handler
DecodeMessage(fs, image_path) ==
    LET r == DecodeBody(fs, image_path)
    IN  [result |-> Catch(r.outcome), scan |-> r.scan]

\* encode_message: the try block under its except handler
EncodeMessage(fs, image_path, msg, out_path, resp) ==
    LET r == EncodeBody(fs, image_path, msg, out_path, resp)
    IN  [result |-> Catch(r.outcome), files |-> r.files]

(* ---------------------------------------------------------------------- *)
(* Inputs                                                                  *)
(* ---------------------------------------------------------------------- *)

\* longest payload typed by the user
MaxPayloadLen == 3

\* longest run of one character at the head of a crafted cover image
MaxPrefix == 11

\* a run long enough to overflow the preview of a partial match
PreviewRun == 52

\* a run of characters that fills the whole scanned part of a large image
LongRun == 1250

\* payload characters: 'a', a control character, a Latin-1 letter
PayloadChars == {97, 1, 233}

SeqsUpTo(S, n) == UNION {[1..k -> S] : k \in 0..n}

Payloads ==
    SeqsUpTo(PayloadChars, MaxPayloadLen)
        \cup {Delimiter, <<97>> \o Delimiter \o <<98>>}

\* image sizes in pixels (three samples each)
PixelCounts == {24, 27, 29, 32, 40, 48}

\* upper seven bits of sample j (1-based) of a cover image
HiBits(pattern, j) ==
    CASE pattern = "flat"  -> 100
      [] pattern = "white" -> 127
      [] pattern = "ramp"  -> (5 * j) % 128

\* low bit of sample j (1-based) of a cover image
LoBit(pattern, j) ==
    CASE pattern = "flat"  -> 0
      [] pattern = "white" -> 1
      [] pattern = "ramp"  -> (j \div 3) % 2

Cover(npix, pattern) ==
    ImageFile([j \in 1..(3 * npix) |->
                  2 * HiBits(pattern, j) + LoBit(pattern, j)])

\* bit k (0 = least significant) of n
BitOf(n, k) == (n \div (2 ^ k)) % 2

\* the bytes of a string laid out most significant bit first
BitsOfBytes(bytes) ==
    [j \in 1..(8 * Len(bytes)) |->
        BitOf(bytes[((j - 1) \div 8) + 1], 7 - ((j - 1) % 8))]

Run(c, n) == [j \in 1..n |-> c]

\* an image whose LSBs are the given bits, padded with zero bits to whole
\* pixels
Crafted(bits, pattern) ==
    LET pad == (3 - (Len(bits) % 3)) % 3
        all == bits \o Run(0, pad)
    IN  ImageFile([j \in 1..Len(all) |-> 2 * HiBits(pattern, j) + all[j]])

\* the middle of a crafted bitstream
MidBits(mid) ==
    CASE mid = "none"      -> <<>>
      [] mid = "aligned"   -> BitsOfBytes(Delimiter)
      [] mid = "unaligned" -> <<0, 1, 1, 0>> \o BitsOfBytes(Delimiter)
                                  \o <<0, 0, 0, 1>>
      [] mid = "partial"   -> BitsOfBytes(SubSeq(Delimiter, 1, 8))
      [] mid = "split"     -> BitsOfBytes(SubSeq(Delimiter, 1, 5) \o <<1>>
                                  \o SubSeq(Delimiter, 6, 9))

Mids == {"none", "aligned", "unaligned", "partial", "split"}

\* endings of the two crafted images of one session
SuffixPairs ==
    {<< <<>>, <<>> >>, << <<>>, Delimiter >>, << <<97>>, Delimiter >>,
     << Delimiter, <<97>> >>}

EncodeCall == [op |-> "encode", path |-> "in.png"]

DecodeCall(path) == [op |-> "decode", path |-> path]

\* sessions that hide a payload in a cover image and read images back
EncodeSessions ==
    {[files |-> [p \in Paths |-> IF p = "in.png" THEN in ELSE Absent],
      message |-> msg, output_path |-> o[1], response |-> o[2],
      todo |-> plan] :
        in \in {Cover(n, pat) : n \in PixelCounts, pat \in {"white", "ramp"}}
                  \cup {Corrupt},
        msg \in Payloads,
        o \in {<<"out.png", "y">>, <<"out.jpg", "y">>, <<"out.jpg", "n">>,
               <<"out.jpg", "EOF">>},
        plan \in {<<EncodeCall, DecodeCall("out.png")>>,
                  <<DecodeCall("in.png"), EncodeCall,
                    DecodeCall("out.jpg")>>}}

\* two crafted images with a common head and their own endings
CraftedSession(c, n, noise, mid, sp, hi) ==
    LET head == BitsOfBytes(Run(c, n) \o noise) \o MidBits(mid)
    IN  [files |-> [p \in Paths |->
                     CASE p = "in.png"  ->
                              Crafted(head \o BitsOfBytes(sp[1]), "flat")
                       [] p = "alt.png" ->
                              Crafted(head \o BitsOfBytes(sp[2]), hi)
                       [] OTHER -> Absent],
         message |-> <<>>, output_path |-> "out.png", response |-> "y",
         todo |-> <<DecodeCall("in.png"), DecodeCall("alt.png")>>]

\* sessions that read two images nobody may have written a payload to
DecodeSessions ==
    {CraftedSession(c, n, noise, mid, sp, hi) :
        c \in {97, 49}, n \in (0..MaxPrefix) \cup {PreviewRun},
        noise \in {<<>>, <<1>>, <<200>>}, mid \in Mids,
        sp \in SuffixPairs, hi \in {"flat", "ramp"}}

\* sessions on images larger than the scanned part
LongSessions ==
    {CraftedSession(97, LongRun - s[1], <<>>, s[2], sp, "ramp") :
        s \in {<<0, "none">>, <<8, "partial">>},
        sp \in {<< <<>>, Delimiter >>, << <<97>>, <<62>> >>}}

(* ---------------------------------------------------------------------- *)
(* State machine                                                           *)
(* ---------------------------------------------------------------------- *)

VARIABLES
    files,           \* path -> image file
    message,         \* the payload given to encode_message
    output_path,     \* the output path given to encode_message
    response,        \* what the user answers to the JPEG prompt
    todo,            \* the calls the caller still makes
    pc,              \* "idle", or "scan" inside decode_message's loop
    binary_message,  \* the LSBs decode_message's loop reads
    tmp,             \* the server's temporary files, by name
    req,             \* the requests being served, each with its position
    dpath,           \* image_path of the last decode_message
    scan,            \* the loop variables the last decode_message ended with
    encodeResult,    \* what encode_message returned
    decodeResult     \* path -> what decode_message returned

vars == <<files, message, output_path, response, todo, pc, binary_message,
          tmp, req, dpath, scan, encodeResult, decodeResult>>

inputs == <<message, output_path, response>>

\* what only the web handlers touch
api == <<tmp, req>>

TempPaths == {"temp_input.png", "temp_output.png", "temp_decode.png"}

\* no temporary file, no request
ApiIdle ==
    /\ tmp = [p \in TempPaths |-> Absent]
    /\ req = <<>>

Init ==
    /\ \E s \in EncodeSessions \cup DecodeSessions \cup LongSessions :
          /\ files = s.files
          /\ message = s.message
          /\ output_path = s.output_path
          /\ response = s.response
          /\ todo = s.todo
    /\ pc = "idle"
    /\ binary_message = <<>>
    /\ ApiIdle
    /\ dpath = ""
    /\ scan = ScanInit
    /\ encodeResult = None
    /\ decodeResult = [p \in Paths |-> None]

\* a call of encode_message(image_path, message, output_path)
Encode ==
    /\ todo # <<>>
    /\ Head(todo).op = "encode"
    /\ LET r == EncodeMessage(files, Head(todo).path, message, output_path,
                              response)
       IN  /\ files' = r.files
           /\ encodeResult' = r.result
    /\ todo' = Tail(todo)
    /\ UNCHANGED <<inputs, pc, binary_message, api, dpath, scan,
                   decodeResult>>

\* a call of decode_message(image_path)
Decode ==
    /\ todo # <<>>
    /\ Head(todo).op = "decode"
    /\ LET r == DecodeMessage(files, Head(todo).path)
       IN  /\ decodeResult' = [decodeResult EXCEPT ![Head(todo).path] = r.result]
           /\ scan' = r.scan
    /\ dpath' = Head(todo).path
    /\ todo' = Tail(todo)
    /\ UNCHANGED <<files, inputs, pc, binary_message, api, encodeResult>>

Next == Encode \/ Decode

Spec == Init /\ [][Next]_vars

(* ---------------------------------------------------------------------- *)
(* decode_message iteration by iteration                                   *)
(* ---------------------------------------------------------------------- *)

\* sessions that read two crafted images and a path with no file
ScanSessions ==
    {[s EXCEPT !.todo = Append(s.todo, DecodeCall("out.png"))] :
        s \in {CraftedSession(97, n, noise, mid, << <<>>, Delimiter >>, "flat") :
                  n \in 0..MaxPrefix, noise \in {<<>>, <<1>>, <<200>>},
                  mid \in Mids}}

InitScan ==
    /\ \E s \in ScanSessions :
          /\ files = s.files
          /\ message = s.message
          /\ output_path = s.output_path
          /\ response = s.response
          /\ todo = s.todo
    /\ pc = "idle"
    /\ binary_message = <<>>
    /\ ApiIdle
    /\ dpath = ""
    /\ scan = ScanInit
    /\ encodeResult = None
    /\ decodeResult = [p \in Paths |-> None]

\* decode_message(image_path) up to the start of its loop
ScanOpen ==
    /\ pc = "idle"
    /\ todo # <<>>
    /\ Head(todo).op = "decode"
    /\ dpath' = Head(todo).path
    /\ scan' = ScanInit
    /\ IF CanOpen(files[Head(todo).path])
       THEN /\ pc' = "scan"
            /\ binary_message' = ExtractBits(files[Head(todo).path].samples)
            /\ UNCHANGED <<todo, decodeResult>>
       ELSE /\ decodeResult' =
                   [decodeResult EXCEPT
                       ![Head(todo).path] = Catch(Raise("cannot open image"))]
            /\ todo' = Tail(todo)
            /\ UNCHANGED <<pc, binary_message>>
    /\ UNCHANGED <<files, inputs, api, encodeResult>>

\* one iteration of decode_message's loop, or the loop running out
ScanIter ==
    /\ pc = "scan"
    /\ scan.state = "Scanning"
    /\ scan' = ScanStep(binary_message, scan)
    /\ UNCHANGED <<files, inputs, todo, pc, binary_message, api, dpath,
                   encodeResult, decodeResult>>

\* decode_message returns from inside or after its loop
ScanReturn ==
    /\ pc = "scan"
    /\ scan.state # "Scanning"
    /\ decodeResult' = [decodeResult EXCEPT ![dpath] = Catch(Classify(scan))]
    /\ pc' = "idle"
    /\ todo' = Tail(todo)
    /\ UNCHANGED <<files, inputs, binary_message, api, dpath, scan,
                   encodeResult>>

NextScan == ScanOpen \/ ScanIter \/ ScanReturn

\* the loop is straight-line code of a running call: it keeps going
SpecScan ==
    /\ InitScan
    /\ [][NextScan]_vars
    /\ WF_vars(ScanOpen)
    /\ WF_vars(ScanIter)
    /\ WF_vars(ScanReturn)

(* ---------------------------------------------------------------------- *)
(* The web handlers encode_api and decode_api, served by concurrent threads *)
(* ---------------------------------------------------------------------- *)

\* characters str.strip() removes, among the 8-bit codes
Whitespace == {9, 10, 11, 12, 13, 28, 29, 30, 31, 32, 133, 160}

\* s.strip()
Strip(s) ==
    LET keep == {j \in 1..Len(s) : s[j] \notin Whitespace}
    IN  IF keep = {} THEN <<>>
        ELSE SubSeq(s, CHOOSE a \in keep : \A j \in keep : a <= j,
                       CHOOSE b \in keep : \A j \in keep : j <= b)

\* 'image' not in request.files
NoPart == [kind |-> "nopart", samples |-> <<>>]

\* a file part whose filename is ''
NoName == [kind |-> "noname", samples |-> <<>>]

\* jsonify({'success': ..., 'message': ..., ...}); data is image_data or
\* decoded_message
Json(success, text, detail, data) ==
    [success |-> success, message |-> text, detail |-> detail, data |-> data]

NoResponse == Json(FALSE, "", "", <<>>)

\* a request as it arrives
Request(op, upload, msg) ==
    [op |-> op, upload |-> upload, message |-> msg, pc |-> "start",
     result |-> None, img_data |-> <<>>, response |-> NoResponse]

\* the handler returns
Respond(t, rq, json) ==
    [tmp |-> t, rq |-> [rq EXCEPT !.pc = "done", !.response = json]]

\* except Exception as e: return jsonify(... f'Server error: {str(e)}')
ServerError(t, rq, error) ==
    Respond(t, rq, Json(FALSE, "Server error", error, <<>>))

\* encode_api up to file.save(temp_input)
SaveUpload(t, rq) ==
    IF rq.upload = NoPart
    THEN Respond(t, rq, Json(FALSE, "No image uploaded", "", <<>>))
    ELSE IF rq.upload = NoName
    THEN Respond(t, rq, Json(FALSE, "No image selected", "", <<>>))
    ELSE IF Strip(rq.message) = <<>>
    THEN Respond(t, rq, Json(FALSE, "Message cannot be empty", "", <<>>))
    ELSE [tmp |-> [t EXCEPT !["temp_input.png"] = rq.upload],
          rq |-> [rq EXCEPT !.pc = "saved"]]

\* success, result = stego.encode_message(temp_input, message, temp_output)
CallEncode(t, rq) ==
    LET r == EncodeMessage(t, "temp_input.png", Strip(rq.message),
                           "temp_output.png", "y")
    IN  [tmp |-> r.files,
         rq |-> [rq EXCEPT !.pc = "called", !.result = r.result]]

\* with open(temp_output, 'rb') as img_file: img_data = ...
ReadOutput(t, rq) ==
    IF t["temp_output.png"] = Absent
    THEN ServerError(t, rq, "No such file: temp_output.png")
    ELSE [tmp |-> t,
          rq |-> [rq EXCEPT !.pc = "read",
                            !.img_data = t["temp_output.png"].samples]]

\* os.remove(temp_input); os.remove(temp_output); return the image
CleanUp(t, rq) ==
    IF t["temp_input.png"] = Absent
    THEN ServerError(t, rq, "No such file: temp_input.png")
    ELSE
      LET t1 == [t EXCEPT !["temp_input.png"] = Absent] IN
      IF t1["temp_output.png"] = Absent
      THEN ServerError(t1, rq, "No such file: temp_output.png")
      ELSE Respond([t1 EXCEPT !["temp_output.png"] = Absent], rq,
                   Json(TRUE, "Message encoded successfully", "",
                        rq.img_data))

\* the else branch: remove the temporary files that exist, return result
CleanUpFailed(t, rq) ==
    Respond([t EXCEPT !["temp_input.png"] = Absent,
                      !["temp_output.png"] = Absent],
            rq, Json(FALSE, rq.result.kind, rq.result.error, <<>>))

\* decode_api up to file.save(temp_input)
SaveDecodeUpload(t, rq) ==
    IF rq.upload = NoPart
    THEN Respond(t, rq, Json(FALSE, "No image uploaded", "", <<>>))
    ELSE IF rq.upload = NoName
    THEN Respond(t, rq, Json(FALSE, "No image selected", "", <<>>))
    ELSE [tmp |-> [t EXCEPT !["temp_decode.png"] = rq.upload],
          rq |-> [rq EXCEPT !.pc = "saved"]]

\* success, result = stego.decode_message(temp_input)
CallDecode(t, rq) ==
    [tmp |-> t,
     rq |-> [rq EXCEPT !.pc = "called",
                       !.result = DecodeMessage(t, "temp_decode.png").result]]

\* os.remove(temp_input); return the decoded message or the failure
RemoveAndReturn(t, rq) ==
    IF t["temp_decode.png"] = Absent
    THEN ServerError(t, rq, "No such file: temp_decode.png")
    ELSE
      LET t1 == [t EXCEPT !["temp_decode.png"] = Absent] IN
      IF rq.result.success
      THEN Respond(t1, rq, Json(TRUE, "Message decoded successfully", "",
                                rq.result.text))
      ELSE Respond(t1, rq, Json(FALSE, rq.result.kind, rq.result.error,
                                rq.result.text))

\* the next stretch of a handler between two accesses to the temporary files
ApiStep(t, rq) ==
    CASE rq.op = "encode" /\ rq.pc = "start"  -> SaveUpload(t, rq)
      [] rq.op = "encode" /\ rq.pc = "saved"  -> CallEncode(t, rq)
      [] rq.op = "encode" /\ rq.pc = "called" ->
             IF rq.result.success THEN ReadOutput(t, rq)
             ELSE CleanUpFailed(t, rq)
      [] rq.op = "encode" /\ rq.pc = "read"   -> CleanUp(t, rq)
      [] rq.op = "decode" /\ rq.pc = "start"  -> SaveDecodeUpload(t, rq)
      [] rq.op = "decode" /\ rq.pc = "saved"  -> CallDecode(t, rq)
      [] rq.op = "decode" /\ rq.pc = "called" -> RemoveAndReturn(t, rq)
      [] OTHER -> [tmp |-> t, rq |-> rq]

\* the two images uploaded
ImageOne == Cover(27, "ramp")

ImageTwo == Crafted(BitsOfBytes(<<98, 121, 101>> \o Delimiter), "flat")

Uploads == {ImageOne, ImageTwo, NoPart, NoName}

ApiMessages == {<<104, 105>>, <<32>>, <<32, 104, 105, 32>>}

ApiRequests ==
    {Request("encode", u, m) : u \in Uploads, m \in ApiMessages}
        \cup {Request("decode", u, <<>>) : u \in Uploads}

Requests == {1, 2}

InitApi ==
    /\ files = [p \in Paths |-> Absent]
    /\ message = <<>>
    /\ output_path = "out.png"
    /\ response = "y"
    /\ todo = <<>>
    /\ pc = "idle"
    /\ binary_message = <<>>
    /\ tmp = [p \in TempPaths |-> Absent]
    /\ req \in [Requests -> ApiRequests]
    /\ dpath = ""
    /\ scan = ScanInit
    /\ encodeResult = None
    /\ decodeResult = [p \in Paths |-> None]

\* what the handlers leave alone
codec == <<files, inputs, todo, pc, binary_message, dpath, scan,
           encodeResult, decodeResult>>

\* request r has run a stretch of its handler, with the outcome out
Serve(r, out) ==
    /\ tmp' = out.tmp
    /\ req' = [req EXCEPT ![r] = out.rq]
    /\ UNCHANGED codec

EncodeApiSave ==
    \E r \in Requests :
        /\ req[r].op = "encode" /\ req[r].pc = "start"
        /\ Serve(r, SaveUpload(tmp, req[r]))

EncodeApiCall ==
    \E r \in Requests :
        /\ req[r].op = "encode" /\ req[r].pc = "saved"
        /\ Serve(r, CallEncode(tmp, req[r]))

EncodeApiRead ==
    \E r \in Requests :
        /\ req[r].op = "encode" /\ req[r].pc = "called"
        /\ req[r].result.success
        /\ Serve(r, ReadOutput(tmp, req[r]))

EncodeApiFail ==
    \E r \in Requests :
        /\ req[r].op = "encode" /\ req[r].pc = "called"
        /\ ~req[r].result.success
        /\ Serve(r, CleanUpFailed(tmp, req[r]))

EncodeApiReturn ==
    \E r \in Requests :
        /\ req[r].op = "encode" /\ req[r].pc = "read"
        /\ Serve(r, CleanUp(tmp, req[r]))

DecodeApiSave ==
    \E r \in Requests :
        /\ req[r].op = "decode" /\ req[r].pc = "start"
        /\ Serve(r, SaveDecodeUpload(tmp, req[r]))

DecodeApiCall ==
    \E r \in Requests :
        /\ req[r].op = "decode" /\ req[r].pc = "saved"
        /\ Serve(r, CallDecode(tmp, req[r]))

DecodeApiReturn ==
    \E r \in Requests :
        /\ req[r].op = "decode" /\ req[r].pc = "called"
        /\ Serve(r, RemoveAndReturn(tmp, req[r]))

NextApi ==
    \/ EncodeApiSave
    \/ EncodeApiCall
    \/ EncodeApiRead
    \/ EncodeApiFail
    \/ EncodeApiReturn
    \/ DecodeApiSave
    \/ DecodeApiCall
    \/ DecodeApiReturn

SpecApi == InitApi /\ [][NextApi]_vars

(* ---------------------------------------------------------------------- *)
(* Vocabulary of the properties                                            *)
(* ---------------------------------------------------------------------- *)

\* the byte value range a decoded character must lie in to be kept
Printable(c) == c \in (32..126) \cup {9, 10, 13}

Letter(c) == c \in (65..90) \cup (97..122)

\* value of the g-th (1-based) 8-sample group of a buffer, from its LSBs
ByteAt(samples, g) ==
    LET b(k) == samples[8 * (g - 1) + k] % 2
    IN  128 * b(1) + 64 * b(2) + 32 * b(3) + 16 * b(4)
          + 8 * b(5) + 4 * b(6) + 2 * b(7) + b(8)

\* complete 8-sample groups among the first 10,000 samples
ScannedGroups(samples) ==
    IF Len(samples) < 10000 THEN Len(samples) \div 8 ELSE 1250

\* the byte values of the first n groups
GroupBytes(samples, n) == [g \in 1..n |-> ByteAt(samples, g)]

\* the kept characters among the first n groups
AcceptedOf(samples, n) == SelectSeq(GroupBytes(samples, n), Printable)

\* the first group holding a byte that is not kept, 0 when there is none
FirstRejected(samples) ==
    LET bad == {g \in 1..ScannedGroups(samples) :
                    ~Printable(ByteAt(samples, g))}
    IN  IF bad = {} THEN 0
        ELSE CHOOSE g \in bad : \A h \in bad : g <= h

\* the decoder met a byte that is not kept before it had kept 10 bytes
\* (and before any terminator)
EarlyRejectMet(samples) ==
    LET g == FirstRejected(samples)
    IN  /\ g >= 1
        /\ g <= 10
        /\ ~Contains(GroupBytes(samples, g - 1), Delimiter)

\* decode_message has returned for its image_path
DecodeDone == dpath # "" /\ decodeResult[dpath] # None

\* the samples decode_message read
Decoded == files[dpath].samples

\* encode_message has opened the image and reached its capacity check
EncodeAttempted ==
    /\ encodeResult # None
    /\ CanOpen(files["in.png"])
    /\ ~(output_path = "out.jpg" /\ response # "y")

TooLong(r) == r.kind = "Error" /\ r.error = "Message too long for this image"

\* the file encode_message writes on success
Written == files["out.png"].samples

Original == files["in.png"].samples

(* ---------------------------------------------------------------------- *)
(* C1: decoding the image written by a successful encode of payload p      *)
(* returns (True, p).                                                      *)
(* ---------------------------------------------------------------------- *)
C1_RoundTrip ==
    (encodeResult.success /\ decodeResult["out.png"] # None)
        => decodeResult["out.png"] = Return(TRUE, "Found", message)

(* ---------------------------------------------------------------------- *)
(* C2: encode succeeds exactly when 8 * (len(payload) + 9) is at most the  *)
(* sample count, equality included; beyond it the call fails with the      *)
(* message-too-long error.                                                 *)
(* ---------------------------------------------------------------------- *)
C2_CapacityBoundary ==
    EncodeAttempted =>
        IF 8 * (Len(message) + 9) <= Len(Original)
        THEN encodeResult.success
        ELSE ~encodeResult.success /\ TooLong(encodeResult)

C2_Witness ==
    /\ EncodeAttempted
    /\ 8 * (Len(message) + 9) = Len(Original)
    /\ Len(message) > 0
    /\ encodeResult.success

(* ---------------------------------------------------------------------- *)
(* C3: after a successful encode every sample below 8L keeps its upper     *)
(* seven bits, and every sample from 8L on is unchanged.                   *)
(* ---------------------------------------------------------------------- *)
C3_LsbOnly ==
    encodeResult.success =>
        /\ Len(Written) = Len(Original)
        /\ \A j \in 1..Len(Original) :
              IF j <= 8 * (Len(message) + 9)
              THEN Written[j] \div 2 = Original[j] \div 2
              ELSE Written[j] = Original[j]

C3_Witness ==
    /\ encodeResult.success
    /\ 8 * (Len(message) + 9) < Len(Original)
    /\ \E j \in 1..(8 * (Len(message) + 9)) : Written[j] # Original[j]
    /\ \E j \in 1..Len(Original) : Original[j] \div 2 # 0

(* ---------------------------------------------------------------------- *)
(* C4: a call of encode that fails because the message is too long leaves  *)
(* every file as it was (no sample changed, no output written) and only    *)
(* sets the returned result.                                               *)
(* ---------------------------------------------------------------------- *)
C4_NoPartialEncoding ==
    [][(encodeResult' # encodeResult /\ TooLong(encodeResult'))
          => (files' = files /\ decodeResult' = decodeResult)]_vars

C4_Witness ==
    /\ TooLong(encodeResult)
    /\ files["out.png"] = Absent
    /\ files["out.jpg"] = Absent

(* ---------------------------------------------------------------------- *)
(* C5: every finished call of encode or decode has returned a (success,    *)
(* text) pair; no exception leaves the call.                               *)
(* ---------------------------------------------------------------------- *)
IsReturnedPair(r) ==
    /\ r.raised = FALSE
    /\ r.success \in BOOLEAN
    /\ r.kind \notin {"None", "Raised"}

C5_NeverRaises ==
    [][(todo' # todo) =>
          IF Head(todo).op = "encode"
          THEN IsReturnedPair(encodeResult')
          ELSE IsReturnedPair(decodeResult'[Head(todo).path])]_vars

C5_Witness ==
    /\ TooLong(encodeResult)
    /\ decodeResult["out.jpg"].kind = "Error"
    /\ decodeResult["in.png"].kind = "NoMessageFound"

(* ---------------------------------------------------------------------- *)
(* C6: when decode returns Found(payload), the scan stopped at the first   *)
(* kept character that completes the terminator, payload is the kept       *)
(* characters before that terminator, and payload has no terminator in it. *)
(* ---------------------------------------------------------------------- *)
C6_FoundIsPrefix ==
    (DecodeDone /\ decodeResult[dpath].kind = "Found") =>
        LET g == scan.i \div 8
            acc == AcceptedOf(Decoded, g)
        IN  /\ g >= 1
            /\ g <= ScannedGroups(Decoded)
            /\ Printable(ByteAt(Decoded, g))
            /\ Len(acc) >= 9
            /\ LastN(acc, 9) = Delimiter
            /\ ~Contains(SubSeq(acc, 1, Len(acc) - 1), Delimiter)
            /\ decodeResult[dpath].text = SubSeq(acc, 1, Len(acc) - 9)
            /\ ~Contains(decodeResult[dpath].text, Delimiter)
            /\ decodeResult[dpath].success

C6_Witness ==
    /\ DecodeDone
    /\ decodeResult[dpath].kind = "Found"
    /\ Len(decodeResult[dpath].text) >= 10
    /\ Len(decodeResult[dpath].text) + 9 < scan.i \div 8
    /\ scan.i \div 8 < ScannedGroups(Decoded)

(* ---------------------------------------------------------------------- *)
(* C7: a byte that is not kept, met before 10 bytes were kept, stops the   *)
(* scan at once.  As claimed, the result is then always NoMessageFound.    *)
(* ---------------------------------------------------------------------- *)
EarlyAbortCase == DecodeDone /\ CanOpen(files[dpath]) /\ EarlyRejectMet(Decoded)

StoppedAtReject ==
    LET g == FirstRejected(Decoded)
    IN  /\ scan.state = "Aborted"
        /\ scan.i = 8 * (g - 1)
        /\ scan.message = GroupBytes(Decoded, g - 1)

KeptAll == AcceptedOf(Decoded, ScannedGroups(Decoded))

ExhaustedCase ==
    /\ DecodeDone
    /\ CanOpen(files[dpath])
    /\ ~EarlyRejectMet(Decoded)
    /\ ~Contains(KeptAll, Delimiter)

C8_PostScan ==
    ExhaustedCase =>
        /\ scan.state = "Exhausted"
        /\ decodeResult[dpath] =
              IF Len(KeptAll) > 5 /\ \E j \in 1..Len(KeptAll) : Letter(KeptAll[j])
              THEN Return(FALSE, "PartialMatch",
                          SubSeq(KeptAll, 1,
                                 IF Len(KeptAll) < 50 THEN Len(KeptAll) ELSE 50))
              ELSE Return(FALSE, "NoMessageFound", <<>>)

C8_Witness ==
    /\ ExhaustedCase
    /\ decodeResult[dpath].kind = "PartialMatch"
    /\ Len(KeptAll) > 50
    /\ Len(decodeResult[dpath].text) = 50

(* ---------------------------------------------------------------------- *)
(* C9: the scan never goes past the first 10,000 bits, reads whole 8-bit   *)
(* groups only, and two images that agree in LSB on samples 0..9999 get    *)
(* the same decode result.                                                 *)
(* ---------------------------------------------------------------------- *)
BothDecoded ==
    /\ \A p \in {"in.png", "alt.png"} :
          CanOpen(files[p]) /\ decodeResult[p] # None

ImageA == files["in.png"].samples

ImageB == files["alt.png"].samples

C9_BoundedSearch ==
    /\ (dpath # "" /\ CanOpen(files[dpath])) =>
          LET n == IF scan.i \div 8 < ScannedGroups(Decoded)
                   THEN scan.i \div 8 ELSE ScannedGroups(Decoded)
          IN  /\ scan.i <= 10000
              /\ scan.message = AcceptedOf(Decoded, n)
    /\ (/\ BothDecoded
        /\ Len(ImageA) >= 10000
        /\ Len(ImageB) >= 10000
        /\ \A j \in 1..10000 : ImageA[j] % 2 = ImageB[j] % 2)
          => decodeResult["in.png"] = decodeResult["alt.png"]

C9_Witness ==
    /\ BothDecoded
    /\ Len(ImageA) > 10000
    /\ Len(ImageB) >= 10000 + 72
    /\ \A j \in 1..10000 : ImageA[j] % 2 = ImageB[j] % 2
    /\ \E j \in 1..10000 : ImageA[j] # ImageB[j]
    /\ \E k \in 10000..(Len(ImageB) - 72) :
          \A j \in 1..72 : ImageB[k + j] % 2 = BitsOfBytes(Delimiter)[j]
    /\ decodeResult["in.png"].kind = "PartialMatch"

(* ---------------------------------------------------------------------- *)
(* C10: when the terminator's bit pattern stands at offset k of an image's *)
(* LSB stream, two images that agree on samples 0..k+71 get the same       *)
(* decode result.  As claimed, for every offset k.                         *)
(* ---------------------------------------------------------------------- *)
TerminatorAt(samples, k) ==
    /\ k + 72 <= Len(samples)
    /\ \A j \in 1..72 : samples[k + j] % 2 = BitsOfBytes(Delimiter)[j]

AgreeUpTo(n) ==
    /\ Len(ImageA) >= n
    /\ Len(ImageB) >= n
    /\ \A j \in 1..n : ImageA[j] = ImageB[j]

C10_Original ==
    BothDecoded =>
        \A k \in 0..(Len(ImageA) - 72) :
            (TerminatorAt(ImageA, k) /\ AgreeUpTo(k + 72))
                => decodeResult["in.png"] = decodeResult["alt.png"]

\* C10 as amended: for every offset k that is a multiple of 8
C10_EarlyTermination ==
    BothDecoded =>
        \A k \in 0..(Len(ImageA) - 72) :
            (k % 8 = 0 /\ TerminatorAt(ImageA, k) /\ AgreeUpTo(k + 72))
                => decodeResult["in.png"] = decodeResult["alt.png"]

C10_Witness ==
    /\ BothDecoded
    /\ \E k \in 0..(Len(ImageA) - 72) :
          /\ k % 8 = 0
          /\ k >= 80
          /\ TerminatorAt(ImageA, k)
          /\ AgreeUpTo(k + 72)
          /\ TerminatorAt(ImageB, k + 72)
          /\ ~TerminatorAt(ImageA, k + 72)
    /\ decodeResult["in.png"].kind = "Found"
    /\ decodeResult["alt.png"].kind = "Found"

(* ---------------------------------------------------------------------- *)
(* C11: encode called with an empty payload fails and writes no image;     *)
(* no image carrying only the terminator is ever produced.                 *)
(* ---------------------------------------------------------------------- *)
C11_EmptyRejected ==
    (encodeResult # None /\ message = <<>>) =>
        /\ ~encodeResult.success
        /\ files["out.png"] = Absent
        /\ files["out.jpg"] = Absent

(* ---------------------------------------------------------------------- *)
(* C13: the encoder's bit sequence has 8 bits per character of payload +   *)
(* terminator, and after a successful encode the LSB of sample i is bit    *)
(* 7 - i mod 8 of character floor(i / 8) of the extended payload.          *)
(* ---------------------------------------------------------------------- *)
Extended == message \o Delimiter

C13_BitPlacement ==
    encodeResult.success =>
        /\ Len(ToBinary(Extended)) = 8 * Len(Extended)
        /\ \A i \in 0..(8 * Len(Extended) - 1) :
              Written[i + 1] % 2
                  = (Extended[(i \div 8) + 1] \div (2 ^ (7 - (i % 8)))) % 2

C13_Witness ==
    /\ encodeResult.success
    /\ Len(message) >= 2
    /\ message[1] # message[2]
    /\ \E i \in 0..(8 * Len(Extended) - 1) :
          Written[i + 1] % 2 # Original[i + 1] % 2

(* ---------------------------------------------------------------------- *)
(* C16: decode returns Found only when the nine terminator bytes stand in  *)
(* the first 10,000 bits as nine consecutive byte-aligned groups.  As      *)
(* claimed.                                                                *)
(* ---------------------------------------------------------------------- *)
FoundCase == DecodeDone /\ decodeResult[dpath].kind = "Found"

C16_Original ==
    FoundCase =>
        \E g \in 1..(ScannedGroups(Decoded) - 8) :
            \A j \in 1..9 : ByteAt(Decoded, g + j - 1) = Delimiter[j]

\* the groups a..b hold the terminator once the bytes that are not kept are
\* left out, and such bytes occur among them only after 10 kept bytes
TerminatorAcross(samples, a, b) ==
    LET bytes == [g \in 1..(b - a + 1) |-> ByteAt(samples, a + g - 1)]
    IN  /\ ByteAt(samples, a) = Delimiter[1]
        /\ ByteAt(samples, b) = Delimiter[9]
        /\ SelectSeq(bytes, Printable) = Delimiter
        /\ (b - a > 8) =>
              \A g \in a..b :
                  ~Printable(ByteAt(samples, g))
                      => Len(AcceptedOf(samples, g - 1)) >= 10

\* C16 as amended: decode returns Found only when the nine terminator bytes
\* stand in the first 10,000 bits as byte-aligned groups in order, with
\* nothing between them but groups whose byte is not kept, which can only
\* occur there after 10 bytes were kept.
C16_NoFalseFound ==
    FoundCase =>
        \E a \in 1..ScannedGroups(Decoded) :
            \E b \in (a + 8)..ScannedGroups(Decoded) :
                TerminatorAcross(Decoded, a, b)

C16_Witness ==
    /\ FoundCase
    /\ ~(\E g \in 1..(ScannedGroups(Decoded) - 8) :
            \A j \in 1..9 : ByteAt(Decoded, g + j - 1) = Delimiter[j])
    /\ Len(decodeResult[dpath].text) >= 10

(* ---------------------------------------------------------------------- *)
(* C14: a byte that is not kept, met after at least 10 bytes were kept, is *)
(* appended neither to the message nor to the window; both stay as they    *)
(* were and the scan goes on with the next 8-bit group.                    *)
(* ---------------------------------------------------------------------- *)
\* the loop is about to read a whole group within the first 10,000 bits
AtGroup ==
    /\ pc = "scan"
    /\ scan.state = "Scanning"
    /\ scan.i < 10000
    /\ scan.i + 8 <= Len(Decoded)

\* the byte of the group the loop is about to read
CurrentByte == ByteAt(Decoded, (scan.i \div 8) + 1)

C14_LateNoiseSkipped ==
    [][(AtGroup /\ ~Printable(CurrentByte) /\ Len(scan.message) >= 10)
          => /\ scan'.message = scan.message
             /\ scan'.delimiter_search = scan.delimiter_search
             /\ scan'.state = "Scanning"
             /\ scan'.i = scan.i + 8
             /\ pc' = "scan"]_vars

C14_Witness ==
    /\ pc = "scan"
    /\ scan.state = "Scanning"
    /\ scan.i >= 8
    /\ scan.i + 8 <= Len(Decoded)
    /\ ~Printable(ByteAt(Decoded, scan.i \div 8))
    /\ Len(scan.message) >= 10

(* ---------------------------------------------------------------------- *)
(* C15: the scan is one forward pass that ends: from Scanning it reaches   *)
(* Found, Aborted or Exhausted; while scanning it moves from each group to *)
(* the next one, never back; once ended it reads no further group and its  *)
(* outcome stays.                                                          *)
(* ---------------------------------------------------------------------- *)
IsPrefix(s, t) == Len(s) <= Len(t) /\ SubSeq(t, 1, Len(s)) = s

ForwardStep ==
    /\ scan.state = "Scanning"
    /\ scan'.state \in {"Scanning", "Found", "Aborted", "Exhausted"}
    /\ scan'.i = IF scan'.state \in {"Aborted", "Exhausted"}
                 THEN scan.i ELSE scan.i + 8
    /\ IsPrefix(scan.message, scan'.message)
    /\ Len(scan'.message) <= Len(scan.message) + 1

C15_SinglePass ==
    /\ (pc = "scan") ~> (pc = "scan" /\ scan.state # "Scanning")
    /\ (pc = "scan" /\ scan.state # "Scanning")
          ~> (pc = "idle" /\ dpath \in Paths
                           /\ decodeResult[dpath] = Catch(Classify(scan)))
    /\ [][(scan' # scan) =>
             IF pc = "scan" THEN ForwardStep ELSE scan' = ScanInit]_vars
    /\ [][\A p \in Paths :
             decodeResult[p] # None => decodeResult'[p] = decodeResult[p]]_vars

C15_Witness ==
    /\ pc = "idle"
    /\ dpath = "alt.png"
    /\ scan.state = "Found"
    /\ scan.i >= 160
    /\ decodeResult["in.png"].kind = "PartialMatch"
    /\ decodeResult["alt.png"].kind = "Found"

(* ---------------------------------------------------------------------- *)
(* C12: two requests on distinct images, served interleaved, each get the  *)
(* response their own image and message determine: the response of the     *)
(* same request served with no other request around.                        *)
(* ---------------------------------------------------------------------- *)
RECURSIVE RunFrom(_, _, _)
\* the handler run to its return with nothing interleaved
RunFrom(t, rq, n) ==
    IF n = 0 \/ rq.pc = "done" THEN rq
    ELSE RunFrom(ApiStep(t, rq).tmp, ApiStep(t, rq).rq, n - 1)

\* the response to a request served alone
Alone(rq) ==
    RunFrom([p \in TempPaths |-> Absent],
            Request(rq.op, rq.upload, rq.message), 4).response

DistinctImages ==
    /\ \A r \in Requests : CanOpen(req[r].upload)
    /\ req[1].upload # req[2].upload

C12_Independent ==
    (req # <<>> /\ DistinctImages) =>
        \A r \in Requests :
            req[r].pc = "done" => req[r].response = Alone(req[r])
====
